---- MODULE Spec2Model ----
(***************************************************************************)
(* Model of the profit/threshold evaluator of churn.py:                    *)
(*   compute_profit      (churn.py lines 67-71)                            *)
(*   compute_all_profits (churn.py lines 73-80)                            *)
(*                                                                         *)
(* Numbers.  Probabilities and thresholds are fixed-point integers with    *)
(* Scale units per 1.0 (Scale = 4900 makes every point of                  *)
(* np.linspace(0.05, 0.95, 50) an integer).  A Python/numpy float is a     *)
(* record: a finite value, NaN, +Infinity or -Infinity, with IEEE-754      *)
(* comparison and arithmetic.  Counts are numpy int64; with at most        *)
(* MaxLen customers and the parameters below no product comes near 2^63,   *)
(* so the width of the counts plays no role.                               *)
(***************************************************************************)
EXTENDS Integers, Sequences, FiniteSets, TLC

\* ------------------------------------------------------------------ bounds
MaxLen == 3

\* fixed-point units per 1.0
Scale == 4900

\* ------------------------------------------------------- IEEE-754 floats
Fin(n) == [k |-> "fin", v |-> n]
NaN == [k |-> "nan", v |-> 0]
PInf == [k |-> "inf", v |-> 1]
NInf == [k |-> "inf", v |-> -1]

IsFinite(x) == x.k = "fin"

Sign(n) == IF n > 0 THEN 1 ELSE IF n < 0 THEN -1 ELSE 0

\* a >= b on floats: every comparison with NaN is False
GE(a, b) ==
    IF a.k = "nan" \/ b.k = "nan" THEN FALSE
    ELSE IF a.k = "fin" /\ b.k = "fin" THEN a.v >= b.v
    ELSE IF a.k = "inf" /\ b.k = "inf" THEN a.v >= b.v
    ELSE IF a.k = "inf" THEN a.v = 1
    ELSE b.v = -1

FNeg(a) == IF a.k = "nan" THEN NaN ELSE [k |-> a.k, v |-> 0 - a.v]

FAdd(a, b) ==
    IF a.k = "nan" \/ b.k = "nan" THEN NaN
    ELSE IF a.k = "fin" /\ b.k = "fin" THEN Fin(a.v + b.v)
    ELSE IF a.k = "inf" /\ b.k = "inf" THEN (IF a.v = b.v THEN a ELSE NaN)
    ELSE IF a.k = "inf" THEN a
    ELSE b

FSub(a, b) == FAdd(a, FNeg(b))

FMul(a, b) ==
    IF a.k = "nan" \/ b.k = "nan" THEN NaN
    ELSE IF a.k = "fin" /\ b.k = "fin" THEN Fin(a.v * b.v)
    ELSE IF Sign(a.v) * Sign(b.v) = 0 THEN NaN
    ELSE [k |-> "inf", v |-> Sign(a.v) * Sign(b.v)]

\* ------------------------------------------------------------ input sets
BoundedSeq(S, n) == UNION {[1..m -> S] : m \in 0..n}

Labels == {0, 1}
Probs == {Fin(Scale \div 2), Fin(Scale), NaN, PInf}
Thresholds == {0, Scale \div 2, Scale, Scale + 49}
Params == {<<Fin(1000), Fin(100)>>, <<NaN, Fin(100)>>, <<PInf, Fin(100)>>,
           <<Fin(1000), NaN>>, <<Fin(1000), PInf>>}

\* ------------------------------------------------------------- outcomes
Returned(profit, tp, fp, fn, tn) ==
    [status |-> "ok", profit |-> profit, tp |-> tp, fp |-> fp, fn |-> fn, tn |-> tn]
Raised(e) ==
    [status |-> e, profit |-> Fin(0), tp |-> 0, fp |-> 0, fn |-> 0, tn |-> 0]
NoCall == Raised("none")

VARIABLES y_true, y_proba, ltv, cost, threshold, out, prev, sweep,
          session, page, calls

vars == <<y_true, y_proba, ltv, cost, threshold, out, prev, sweep,
          session, page, calls>>

\* st.session_state before the first script run: no key is present
NoSession ==
    [has |-> FALSE, ltv |-> Fin(0), cost |-> Fin(0), threshold |-> 0,
     ltv_input |-> 0, cost_input |-> 0]

\* nothing has been rendered yet
NoPage == [status |-> "none"]

\* no concurrent caller is inside compute_profit
NoCalls == <<>>

\* ------------------------------------------------------- compute_profit
\* slip: a strict comparison, y_proba > threshold
y_pred_strict(proba, t) ==
    [i \in 1..Len(proba) |->
        IF GE(proba[i], Fin(t)) /\ proba[i] # Fin(t) THEN 1 ELSE 0]

\* slip: the comparison reversed, y_proba <= threshold
y_pred_reversed(proba, t) ==
    [i \in 1..Len(proba) |-> IF GE(Fin(t), proba[i]) THEN 1 ELSE 0]

\* y_pred = (y_proba >= threshold).astype(int)
y_pred(proba, t) == [i \in 1..Len(proba) |-> IF GE(proba[i], Fin(t)) THEN 1 ELSE 0]

Range(s) == {s[i] : i \in 1..Len(s)}

RECURSIVE SortedSeq(_)
SortedSeq(S) ==
    IF S = {} THEN <<>>
    ELSE LET m == CHOOSE x \in S : \A y \in S : x <= y
         IN <<m>> \o SortedSeq(S \ {m})

\* sklearn.utils.multiclass.unique_labels: the sorted labels of both arrays
unique_labels(yt, yp) == SortedSeq(Range(yt) \cup Range(yp))

\* slip: the first sample is left out of the counts
confusion_matrix_ravel_skip(yt, yp) ==
    IF Len(yt) # Len(yp) THEN [raised |-> TRUE, ravel |-> <<>>]
    ELSE LET labels == unique_labels(yt, yp)
             n == Len(labels)
             cell(i, j) == Cardinality({s \in 2..Len(yt) :
                               yt[s] = labels[i] /\ yp[s] = labels[j]})
         IN [raised |-> FALSE,
             ravel |-> [c \in 1..(n * n) |->
                           cell(((c - 1) \div n) + 1, ((c - 1) % n) + 1)]]

\* sklearn.metrics.confusion_matrix(y_true, y_pred) followed by .ravel():
\* arrays of different length raise ValueError; otherwise the matrix has one
\* row and one column per label PRESENT in either array, C[i][j] counting the
\* samples with true label labels[i] and predicted label labels[j], and
\* ravel() lists it row by row.  (On empty arrays there is no label: the
\* matrix is 0 x 0, or the library raises ValueError itself; both end in
\* ValueError in compute_profit, see below.)
confusion_matrix_ravel(yt, yp) ==
    IF Len(yt) # Len(yp) THEN [raised |-> TRUE, ravel |-> <<>>]
    ELSE LET labels == unique_labels(yt, yp)
             n == Len(labels)
             cell(i, j) == Cardinality({s \in 1..Len(yt) :
                               yt[s] = labels[i] /\ yp[s] = labels[j]})
         IN [raised |-> FALSE,
             ravel |-> [c \in 1..(n * n) |->
                           cell(((c - 1) \div n) + 1, ((c - 1) % n) + 1)]]

\* slip: the offer cost is charged for true negatives as well
profit_formula_tn(tp, fp, fn, tn, l, c) ==
    FSub(FSub(FSub(FMul(Fin(tp), FSub(l, c)), FMul(Fin(fp), c)), FMul(Fin(fn), l)),
         FMul(Fin(tn), c))

\* profit = (tp * (ltv - cost)) - (fp * cost) - (fn * ltv)
profit_formula(tp, fp, fn, tn, l, c) ==
    FSub(FSub(FMul(Fin(tp), FSub(l, c)), FMul(Fin(fp), c)), FMul(Fin(fn), l))

\* slip: the matrix unpacked in the order tp, fp, fn, tn
compute_profit_unpack(yt, proba, t, l, c) ==
    LET cm == confusion_matrix_ravel(yt, y_pred(proba, t))
    IN IF cm.raised THEN Raised("ValueError")
       ELSE IF Len(cm.ravel) # 4 THEN Raised("ValueError")
       ELSE LET tp == cm.ravel[1]
                fp == cm.ravel[2]
                fn == cm.ravel[3]
                tn == cm.ravel[4]
            IN Returned(profit_formula(tp, fp, fn, tn, l, c), tp, fp, fn, tn)

\* tn, fp, fn, tp = confusion_matrix(y_true, y_pred).ravel(): unpacking a
\* sequence that has not exactly four elements raises ValueError
compute_profit(yt, proba, t, l, c) ==
    LET cm == confusion_matrix_ravel(yt, y_pred(proba, t))
    IN IF cm.raised THEN Raised("ValueError")
       ELSE IF Len(cm.ravel) # 4 THEN Raised("ValueError")
       ELSE LET tn == cm.ravel[1]
                fp == cm.ravel[2]
                fn == cm.ravel[3]
                tp == cm.ravel[4]
            IN Returned(profit_formula(tp, fp, fn, tn, l, c), tp, fp, fn, tn)

\* -------------------------------------------------- compute_all_profits
NumSweep == 50
SweepStart == (5 * Scale) \div 100
SweepStop == (95 * Scale) \div 100

\* slip: the end point left out (np.linspace(..., endpoint=False))
linspace_noend(start, stop, num) ==
    [k \in 1..num |-> start + ((k - 1) * (stop - start)) \div num]

\* np.linspace(start, stop, num)
linspace(start, stop, num) ==
    [k \in 1..num |-> start + ((k - 1) * (stop - start)) \div (num - 1)]

NoSweep == [status |-> "none", thresholds |-> <<>>, profits |-> <<>>]

\* for t in thresholds: p, ... = compute_profit(...); profits.append(float(p))
RECURSIVE sweep_loop(_, _, _, _, _, _, _)
sweep_loop(yt, proba, l, c, thresholds, k, profits) ==
    IF k > Len(thresholds)
    THEN [status |-> "ok", thresholds |-> thresholds, profits |-> profits]
    ELSE LET r == compute_profit(yt, proba, thresholds[k], l, c)
         IN IF r.status # "ok"
            THEN [status |-> r.status, thresholds |-> <<>>, profits |-> <<>>]
            ELSE sweep_loop(yt, proba, l, c, thresholds, k + 1,
                            Append(profits, r.profit))

compute_all_profits(yt, proba, l, c) ==
    sweep_loop(yt, proba, l, c, linspace(SweepStart, SweepStop, NumSweep), 1, <<>>)

\* ------------------------------------------------------------ behaviour
\* The arrays a caller may pass: index-aligned arrays of equal length with any
\* contents, and arrays of different lengths (their contents play no role in
\* what happens, so the probabilities are all 0.5 there).
Inputs ==
    {a \in BoundedSeq(Labels, MaxLen) \X BoundedSeq(Probs, MaxLen) :
        \/ Len(a[1]) = Len(a[2])
        \/ \A i \in 1..Len(a[2]) : a[2][i] = Fin(Scale \div 2)}

Init ==
    /\ \E a \in Inputs : y_true = a[1] /\ y_proba = a[2]
    /\ \E p \in Params : ltv = p[1] /\ cost = p[2]
    /\ threshold = 0
    /\ out = NoCall
    /\ prev = [threshold |-> 0, out |-> NoCall]
    /\ sweep = NoSweep
    /\ session = NoSession
    /\ page = NoPage
    /\ calls = NoCalls

\* a caller evaluates compute_profit(y_true, y_proba, t, ltv, cost)
CallComputeProfit ==
    \E t \in Thresholds :
        /\ threshold' = t
        /\ out' = compute_profit(y_true, y_proba, t, ltv, cost)
        /\ prev' = [threshold |-> threshold, out |-> out]
        /\ UNCHANGED <<y_true, y_proba, ltv, cost, sweep, session, page, calls>>

\* slip: the sweep thresholds the caller's probabilities in place
CallComputeAllProfits_inplace ==
    /\ sweep' = compute_all_profits(y_true, y_proba, ltv, cost)
    /\ y_proba' = [i \in 1..Len(y_proba) |-> Fin(0)]
    /\ UNCHANGED <<y_true, ltv, cost, threshold, out, prev, session, page, calls>>

\* a caller evaluates compute_all_profits(y_true, y_proba, ltv, cost)
CallComputeAllProfits ==
    /\ sweep' = compute_all_profits(y_true, y_proba, ltv, cost)
    /\ UNCHANGED <<y_true, y_proba, ltv, cost, threshold, out, prev,
                   session, page, calls>>

Next == CallComputeProfit

Spec == Init /\ [][Next]_vars

\* the threshold sweep, checked on its own: one sweep is NumSweep evaluations,
\* so the parameters are one finite pair and one pair with a NaN cost
SweepParams == {<<Fin(1000), Fin(100)>>, <<Fin(1000), NaN>>}

InitSweep ==
    /\ \E a \in Inputs : y_true = a[1] /\ y_proba = a[2]
    /\ \E p \in SweepParams : ltv = p[1] /\ cost = p[2]
    /\ threshold = 0
    /\ out = NoCall
    /\ prev = [threshold |-> 0, out |-> NoCall]
    /\ sweep = NoSweep
    /\ session = NoSession
    /\ page = NoPage
    /\ calls = NoCalls

NextSweep == CallComputeAllProfits

SpecSweep == InitSweep /\ [][NextSweep]_vars

TypeOK ==
    /\ out.status \in {"none", "ok", "ValueError"}
    /\ sweep.status \in {"none", "ok", "ValueError"}

\* ------------------------------------------------ the worked scenario
\* y_true = [1,0,1,0], y_proba = [0.9,0.8,0.3,0.1], ltv = 1000, cost = 100,
\* evaluated at thresholds 0.00, 0.05, 0.10, ..., 1.00
ScenarioTrue == <<1, 0, 1, 0>>
ScenarioProba ==
    <<Fin((9 * Scale) \div 10), Fin((8 * Scale) \div 10),
      Fin((3 * Scale) \div 10), Fin(Scale \div 10)>>
ScenarioThresholds == {(k * Scale) \div 20 : k \in 0..20}

InitScenario ==
    /\ y_true = ScenarioTrue
    /\ y_proba = ScenarioProba
    /\ ltv = Fin(1000)
    /\ cost = Fin(100)
    /\ threshold = 0
    /\ out = NoCall
    /\ prev = [threshold |-> 0, out |-> NoCall]
    /\ sweep = NoSweep
    /\ session = NoSession
    /\ page = NoPage
    /\ calls = NoCalls

CallScenario ==
    \E t \in ScenarioThresholds :
        /\ threshold' = t
        /\ out' = compute_profit(y_true, y_proba, t, ltv, cost)
        /\ prev' = [threshold |-> threshold, out |-> out]
        /\ UNCHANGED <<y_true, y_proba, ltv, cost, sweep, session, page, calls>>

NextScenario == CallScenario

SpecScenario == InitScenario /\ [][NextScenario]_vars

\* ---------------------------------------------------------- the dashboard
\* One Streamlit script run (lines 149-190, 875-970) per user action, and the
\* page it renders.  The dataset has at most SessionLen customers.
SessionLen == 2

\* the constants carried by the model artifact (lines 60-62); they are the
\* values the page template shows before any data is injected (lines 287,
\* 288, 295).  Thresholds are displayed with three decimals, i.e. in
\* thousandths.
DEFAULT_LTV == 1000
DEFAULT_OFFER_COST == 100
BEST_THRESHOLD == (162 * Scale) \div 1000

\* values a user enters in a number input (sidebar or page)
LtvChoices == {DEFAULT_LTV, 2000}
CostChoices == {DEFAULT_OFFER_COST, 200}

SessionProbs == {Fin(Scale \div 10), Fin(Scale)}
SessionInputs ==
    {a \in BoundedSeq(Labels, SessionLen) \X BoundedSeq(SessionProbs, SessionLen) :
        Len(a[1]) = Len(a[2])}

\* round n/d to the nearest integer, ties to even (d > 0)
RoundDiv(n, d) ==
    LET q == n \div d
        r == n % d
    IN IF 2 * r > d THEN q + 1
       ELSE IF 2 * r < d THEN q
       ELSE IF q % 2 = 0 THEN q ELSE q + 1

\* f"{t:.3f}" / t.toFixed(3) of a threshold: its value in thousandths
Fmt3Threshold(t) == RoundDiv(1000 * t, Scale)

\* a rate num/den; den = 0 stands for the NaN that numpy yields for 0/0
Ratio(n, d) == [num |-> n, den |-> d]
ZeroRate == Ratio(0, 1)

\* f"{rate:.3f}": the rate in thousandths, -1 for "nan"
Fmt3Rate(r) == IF r.den = 0 THEN 0 - 1 ELSE RoundDiv(1000 * r.num, r.den)

\* slip: the guard on the denominator left out
precision_unguarded(tp, fp) == Ratio(tp, tp + fp)

\* tp / (tp + fp) if (tp + fp) > 0 else 0          (lines 114, 187)
precision(tp, fp) == IF tp + fp > 0 THEN Ratio(tp, tp + fp) ELSE ZeroRate

\* tp / (tp + fn) if (tp + fn) > 0 else 0          (lines 115, 188)
recall(tp, fn) == IF tp + fn > 0 THEN Ratio(tp, tp + fn) ELSE ZeroRate

\* 2 * tp / (2 * tp + fp + fn) if (2 * tp + fp + fn) > 0 else 0   (line 116)
f1_score(tp, fp, fn) ==
    IF 2 * tp + fp + fn > 0 THEN Ratio(2 * tp, 2 * tp + fp + fn) ELSE ZeroRate

\* f"{profit:,.0f}": the rounded value, written with thousands separators
\* when its magnitude is 1000 or more
comma_format(p) == [value |-> p.v, commas |-> (p.v >= 1000 \/ p.v <= 0 - 1000)]

\* slip: the customers below the threshold are counted
at_risk_count_below(proba, t) ==
    Cardinality({i \in 1..Len(proba) : ~GE(proba[i], Fin(t))})

\* int((y_proba >= threshold).sum())                  (lines 103, 177)
at_risk_count(proba, t) ==
    Cardinality({i \in 1..Len(proba) : GE(proba[i], Fin(t))})

\* the thresholds of the precision/recall loop, np.linspace(0.1, 0.9, 30)
\* (line 185), cut to the fixed-point grid
NumRates == 30
rate_thresholds == linspace(Scale \div 10, (9 * Scale) \div 10, NumRates)

\* lines 183-190: the lists, or the error of the first call that raises
RECURSIVE rate_loop(_, _, _, _, _, _, _)
rate_loop(yt, proba, l, c, k, precs, recs) ==
    IF k > NumRates
    THEN [status |-> "ok", precision_list |-> precs, recall_list |-> recs]
    ELSE LET r == compute_profit(yt, proba, rate_thresholds[k], l, c)
         IN IF r.status # "ok"
            THEN [status |-> r.status, precision_list |-> <<>>, recall_list |-> <<>>]
            ELSE rate_loop(yt, proba, l, c, k + 1,
                           Append(precs, precision(r.tp, r.fp)),
                           Append(recs, recall(r.tp, r.fn)))

\* generate_excel_report (lines 82-147): the Summary and Confusion_Matrix
\* sheets
generate_excel_report(yt, proba, l, c, t) ==
    LET r == compute_profit(yt, proba, t, l, c)
    IN IF r.status # "ok" THEN [status |-> r.status]
       ELSE [status |-> "ok",
             at_risk |-> at_risk_count(proba, t),
             optimal |-> Fmt3Threshold(BEST_THRESHOLD),
             current |-> Fmt3Threshold(t),
             ltv |-> l, cost |-> c,
             profit |-> comma_format(r.profit),
             tp |-> r.tp, fp |-> r.fp, fn |-> r.fn, tn |-> r.tn,
             precision |-> Fmt3Rate(precision(r.tp, r.fp)),
             recall |-> Fmt3Rate(recall(r.tp, r.fn)),
             f1 |-> Fmt3Rate(f1_score(r.tp, r.fp, r.fn)),
             cm |-> << <<"Retained", "Retained", r.tn, "TN">>,
                       <<"Retained", "Churned", r.fn, "FN">>,
                       <<"Churned", "Retained", r.fp, "FP">>,
                       <<"Churned", "Churned", r.tp, "TP">> >>]

\* the limits of the two number inputs (lines 160-161)
LTV_MIN == 100
LTV_MAX == 50000
COST_MIN == 10
COST_MAX == 5000

\* what a user may type in the two inputs: the choices, and a number beyond
\* a limit
LtvEntries == LtvChoices \cup {LTV_MAX + 10000}
CostEntries == CostChoices \cup {COST_MIN \div 2}

\* slip: the number typed is taken whatever the limits
number_input_unchecked(lo, hi, held, e) == e

\* st.number_input(label, lo, hi, ...) holding the number `held` when the
\* user types e (lines 160-161): the widget takes a number within its limits
\* and keeps the one it holds otherwise
number_input(lo, hi, held, e) ==
    IF lo <= e /\ e <= hi THEN e ELSE held

\* lines 150-155: each key is set only when it is absent
init_session(s) ==
    IF s.has THEN s
    ELSE [s EXCEPT !.has = TRUE,
                   !.ltv = Fin(DEFAULT_LTV),
                   !.cost = Fin(DEFAULT_OFFER_COST),
                   !.threshold = BEST_THRESHOLD]

\* slip: the sidebar values are read but not stored in the session
sidebar_not_stored(s, first) ==
    [s EXCEPT !.ltv_input = IF first THEN s.ltv.v ELSE s.ltv_input,
              !.cost_input = IF first THEN s.cost.v ELSE s.cost_input]

\* lines 158-165: a number input yields int(session value) when it is first
\* created and the number the user entered afterwards (the session values are
\* whole numbers, on which int() changes nothing); both are stored back
sidebar(s, first) ==
    LET ltv_input == IF first THEN s.ltv.v ELSE s.ltv_input
        cost_input == IF first THEN s.cost.v ELSE s.cost_input
    IN [s EXCEPT !.ltv_input = ltv_input,
                 !.cost_input = cost_input,
                 !.ltv = Fin(ltv_input),
                 !.cost = Fin(cost_input)]

\* slip: the evaluation uses the artifact defaults
current_values_default(s) ==
    [threshold |-> BEST_THRESHOLD, ltv |-> Fin(DEFAULT_LTV),
     cost |-> Fin(DEFAULT_OFFER_COST)]

\* lines 171-173: the values every evaluation of this run uses
current_values(s) == [threshold |-> s.threshold, ltv |-> s.ltv, cost |-> s.cost]

\* ------------------------------------------------ the injected client script
\* the loop of window.updateBulkMetrics (lines 916-925): the prediction is
\* yProba[i] >= threshold, and an index past the end of yTrue (undefined, here
\* -1) matches none of the four branches
RECURSIVE client_loop(_, _, _, _, _)
client_loop(yTrue, yProba, t, i, acc) ==
    IF i > Len(yProba) THEN acc
    ELSE LET pred == IF GE(yProba[i], t) THEN 1 ELSE 0
             actual == IF i <= Len(yTrue) THEN yTrue[i] ELSE 0 - 1
         IN client_loop(yTrue, yProba, t, i + 1,
                IF pred = 1 /\ actual = 1 THEN [acc EXCEPT !.tp = @ + 1]
                ELSE IF pred = 1 /\ actual = 0 THEN [acc EXCEPT !.fp = @ + 1]
                ELSE IF pred = 0 /\ actual = 1 THEN [acc EXCEPT !.fn = @ + 1]
                ELSE IF pred = 0 /\ actual = 0 THEN [acc EXCEPT !.tn = @ + 1]
                ELSE acc)

\* const profit = (tp * (ltv - cost)) - (fp * cost) - (fn * ltv)   (line 927)
client_profit(tp, fp, fn, l, c) ==
    FSub(FSub(FMul(Fin(tp), FSub(l, c)), FMul(Fin(fp), c)), FMul(Fin(fn), l))

\* what window.updateBulkMetrics computes (lines 905-927) from the injected
\* arrays, a threshold, an ltv and a cost
client_metrics(yTrue, yProba, t, l, c) ==
    LET k == client_loop(yTrue, yProba, t, 1, [tp |-> 0, fp |-> 0, fn |-> 0, tn |-> 0])
    IN Returned(client_profit(k.tp, k.fp, k.fn, l, c), k.tp, k.fp, k.fn, k.tn)

\* ------------------------------------------------------ the served page
\* the ids of the elements of the page template (lines 192-870)
TemplateIds ==
    {"sidebarToggle", "mobileSidebar", "sidebarClose", "customerLTV",
     "offerCost", "optimalThreshold", "projectedProfit", "thresholdNote",
     "tab-dashboard", "tab-inspector", "tab-bulk", "content-dashboard",
     "profitChart", "attritionChart", "featureChart", "content-inspector",
     "gender", "customerAge", "dependentCount", "educationLevel",
     "maritalStatus", "incomeCategory", "cardCategory", "monthsOnBook",
     "relationshipCount", "creditLimit", "revolvingBal", "utilizationRatio",
     "transAmt", "transCt", "monthsInactive", "contactsCount",
     "amtChng", "ctChng", "riskCard", "riskGauge",
     "riskCircle", "gradient", "riskPercent", "riskBadge",
     "thresholdUsed", "decisionText", "savingsText", "sensitivityFeature",
     "sensitivityChart", "content-bulk", "thresholdSlider", "currentThreshold",
     "thresholdWarning", "tpCount", "fpCount", "fnCount",
     "tnCount", "bulkProfit", "cmTN", "cmFP",
     "cmFN", "cmTP", "profitBreakdownChart"}

\* a number as parseFloat reads it or toFixed(3) shows it, in thousandths
Num(n) == [nan |-> FALSE, v |-> n]
NotANumber == [nan |-> TRUE, v |-> 0]

\* Math.round(n / d) for d > 0: the nearest integer, ties upwards
MathRound(n, d) == (2 * n + d) \div (2 * d)

\* the class sizes the template script is written for (lines 581-582, 796-797)
totalChurners == 1627
totalNonChurners == 8500

\* the metrics a page shows, with the ltv and cost its profit was computed
\* from; nan when the page shows "NaN" for them
ShownMetrics(tp, fp, fn, tn, profit, l, c) ==
    [nan |-> FALSE, tp |-> tp, fp |-> fp, fn |-> fn, tn |-> tn,
     profit |-> profit, ltv |-> l, cost |-> c]
ShownNaN(l, c) ==
    [nan |-> TRUE, tp |-> 0, fp |-> 0, fn |-> 0, tn |-> 0,
     profit |-> 0, ltv |-> l, cost |-> c]

\* what the page template shows before any script has run (lines 287, 288,
\* 295, 478, 484, 488, 495-536, 712)
template_dom ==
    [customerLTV |-> 1000, offerCost |-> 100, optimal |-> 162,
     slider |-> Num(162), current |-> Num(162),
     shown |-> ShownMetrics(1432, 5892, 195, 2608, 287400, 1000, 100),
     warning |-> FALSE,
     breakdown |-> [nan |-> FALSE, data |-> <<1289800, 0 - 589200, 0 - 195000, 0>>],
     curve |-> [drawn |-> FALSE, ltv |-> 0, cost |-> 0],
     initializer |-> [status |-> "not run", steps |-> 0]]

\* updateProfitCurve (lines 572-647) draws the curve for the ltv and cost in
\* the two input fields
updateProfitCurve(dom) ==
    [dom EXCEPT !.curve = [drawn |-> TRUE, ltv |-> dom.customerLTV,
                           cost |-> dom.offerCost]]

\* the points of the curve: t = 0.01, 0.02, ... while t <= 0.99, which in
\* double arithmetic ends after 0.98
NumCurve == 98

\* the k-th point (lines 580-593), t = k/100 and normalizedT = t / 0.99:
\* tp = Math.round(totalChurners * (1 - normalizedT^2)),
\* fp = Math.round(totalNonChurners * normalizedT^2 * 0.8)
curve_point(k, l, c) ==
    LET tp == MathRound(totalChurners * (9801 - k * k), 9801)
        fp == MathRound(8 * totalNonChurners * k * k, 98010)
        fn == totalChurners - tp
    IN [k |-> k, tp |-> tp, fp |-> fp, fn |-> fn,
        profit |-> tp * (l - c) - fp * c - fn * l]

\* the template's updateBulkMetrics (lines 791-823): counts from the class
\* sizes, tp = Math.round(totalChurners * (1 - threshold * 0.8)),
\* fp = Math.round(totalNonChurners * (1 - threshold) * 0.8); it also sets the
\* profit-breakdown chart and the warning.  The comparison with 0.02 is exact
\* for differences other than 0.02 itself.
updateBulkMetrics_template(dom) ==
    LET t == dom.slider
        l == dom.customerLTV
        c == dom.offerCost
        tp == MathRound(totalChurners * (5000 - 4 * t.v), 5000)
        fn == totalChurners - tp
        fp == MathRound(8 * totalNonChurners * (1000 - t.v), 10000)
        tn == totalNonChurners - fp
        d == t.v - dom.optimal
    IN IF t.nan
       THEN [dom EXCEPT !.current = NotANumber,
                        !.shown = ShownNaN(l, c),
                        !.breakdown = [nan |-> TRUE, data |-> <<0, 0, 0, 0>>],
                        !.warning = FALSE]
       ELSE [dom EXCEPT !.current = Num(t.v),
                        !.shown = ShownMetrics(tp, fp, fn, tn,
                                      tp * (l - c) - fp * c - fn * l, l, c),
                        !.breakdown = [nan |-> FALSE,
                                       data |-> <<tp * (l - c), 0 - fp * c,
                                                  0 - fn * l, 0>>],
                        !.warning = (d > 20 \/ d < 0 - 20)]

\* the injected window.updateBulkMetrics (lines 905-942): counts from the
\* injected arrays; the probabilities are in units of 1/Scale and the slider
\* in thousandths, so both sides of the comparison are brought to units of
\* 1/(1000 * Scale).  It sets the threshold, the counts and the profit only.
updateBulkMetrics_injected(dom, md) ==
    LET t == dom.slider
        l == dom.customerLTV
        c == dom.offerCost
        m == client_metrics(md.yTrue,
                 [i \in DOMAIN md.yProba |-> FMul(md.yProba[i], Fin(1000))],
                 IF t.nan THEN NaN ELSE Fin(t.v * Scale), Fin(l), Fin(c))
    IN [dom EXCEPT !.current = IF t.nan THEN NotANumber ELSE Num(t.v),
                   !.shown = ShownMetrics(m.tp, m.fp, m.fn, m.tn, m.profit.v, l, c)]

\* the function the name updateBulkMetrics is bound to: the injected one
\* when the injected script parses (line 905), the template's otherwise
updateBulkMetrics(dom, md, script_ok) ==
    IF script_ok THEN updateBulkMetrics_injected(dom, md)
    ELSE updateBulkMetrics_template(dom)

\* the elements the injected initializer assigns to, in order (lines 945-951)
InitializerTargets ==
    <<"customerLTV", "offerCost", "optimalThreshold", "totalCustomers",
      "atRiskCount", "attritionRate", "projectedProfit">>

\* the i-th assignment; the last four set texts that are no part of dom
initializer_step(dom, md, i) ==
    IF i = 1 THEN [dom EXCEPT !.customerLTV = md.customerLTV]
    ELSE IF i = 2 THEN [dom EXCEPT !.offerCost = md.offerCost]
    ELSE IF i = 3 THEN [dom EXCEPT !.optimal = Fmt3Threshold(BEST_THRESHOLD)]
    ELSE dom

\* the injected DOMContentLoaded handler (lines 944-964): an assignment to
\* an element that getElementById does not find throws a TypeError, which
\* ends the handler; after the assignments come updateBulkMetrics() and the
\* slider listeners
RECURSIVE initializer(_, _, _, _)
initializer(dom, md, script_ok, i) ==
    IF i > Len(InitializerTargets)
    THEN [updateBulkMetrics(dom, md, script_ok) EXCEPT
             !.initializer = [status |-> "done", steps |-> i - 1]]
    ELSE IF InitializerTargets[i] \notin TemplateIds
    THEN [dom EXCEPT !.initializer = [status |-> "TypeError", steps |-> i - 1]]
    ELSE initializer(initializer_step(dom, md, i), md, script_ok, i + 1)

\* the page after it has loaded: the template script draws the curve (line
\* 649), the template's DOMContentLoaded handler calls updateBulkMetrics()
\* (line 827), then the injected handler runs, when the injected script
\* parses
loaded_dom(md, script_ok) ==
    LET d == updateBulkMetrics(updateProfitCurve(template_dom), md, script_ok)
    IN IF script_ok THEN initializer(d, md, script_ok, 1) ELSE d

\* lines 877-970: the values injected into the page.  projectedProfit is
\* written as a bare token, so a value with thousands separators is not a
\* JavaScript number and the injected script does not parse.
render(v, r, at_risk, rates, report, yt, proba) ==
    LET md == [optimalThreshold |-> BEST_THRESHOLD,
               currentThreshold |-> v.threshold,
               projectedProfit |-> comma_format(r.profit),
               atRiskCount |-> at_risk,
               customerLTV |-> v.ltv.v,
               offerCost |-> v.cost.v,
               tp |-> r.tp, fp |-> r.fp, fn |-> r.fn, tn |-> r.tn,
               yTrue |-> yt, yProba |-> proba]
        script_ok == ~md.projectedProfit.commas
    IN [status |-> "ok", modelData |-> md, script_ok |-> script_ok,
        precision_list |-> rates.precision_list,
        recall_list |-> rates.recall_list,
        report |-> report,
        dom |-> loaded_dom(md, script_ok)]

\* an uncaught exception ends the run; nothing of the page is rendered
error_page(e) == [status |-> "error", error |-> e]

\* the outcome of a run on the values v, given the results of its evaluations
\* in the order the script makes them: the first one that raises ends the run
run_outcome(v, r, at_risk, sw, rates, report, yt, proba) ==
    [values |-> v, out |-> r,
     sweep |-> IF r.status = "ok" THEN sw ELSE NoSweep,
     page |-> IF r.status # "ok" THEN error_page(r.status)
              ELSE IF sw.status # "ok" THEN error_page(sw.status)
              ELSE IF rates.status # "ok" THEN error_page(rates.status)
              ELSE IF report.status # "ok" THEN error_page(report.status)
              ELSE render(v, r, at_risk, rates, report, yt, proba)]

\* the evaluations of a run on the values v: lines 176, 177, 180, 183-190
\* and 875
run_values(v, yt, proba) ==
    run_outcome(v,
                compute_profit(yt, proba, v.threshold, v.ltv, v.cost),
                at_risk_count(proba, v.threshold),
                compute_all_profits(yt, proba, v.ltv, v.cost),
                rate_loop(yt, proba, v.ltv, v.cost, 1, <<>>, <<>>),
                generate_excel_report(yt, proba, v.ltv, v.cost, v.threshold),
                yt, proba)

\* the values a run can be given (the numbers a user may type, whether or
\* not the inputs take them), and the outcome of the run on each dataset and
\* each of them, evaluated once and kept as a table
SessionValues ==
    [threshold : {BEST_THRESHOLD}, ltv : {Fin(l) : l \in LtvEntries},
     cost : {Fin(c) : c \in CostEntries}]

RunTable ==
    [d \in SessionInputs, v \in SessionValues |-> run_values(v, d[1], d[2])] @@ <<>>

\* one run of the script, lines 149-190 and 875-970: the session after the
\* sidebar, and the outcome on the values it holds
script_run(s, yt, proba) ==
    LET s1 == sidebar(init_session(s), ~s.has)
    IN [session |-> s1, run |-> RunTable[<<yt, proba>>, current_values(s1)]]

\* Math.min(0.5, Math.max(0.05, 0.1 + (cost / ltv) * 0.5)).toFixed(3), in
\* thousandths (lines 721-724, 735)
client_threshold(l, c) ==
    LET raw == RoundDiv(100 * l + 500 * c, l)
    IN IF raw < 50 THEN 50 ELSE IF raw > 500 THEN 500 ELSE raw

\* recalculateThreshold (lines 717-759): the derived threshold, a whole
\* number of thousandths for the values entered here, becomes the Optimal
\* Threshold text and the slider value; then updateBulkMetrics() and
\* updateProfitCurve()
recalculateThreshold(dom, md, script_ok) ==
    LET opt == client_threshold(dom.customerLTV, dom.offerCost)
    IN updateProfitCurve(
           updateBulkMetrics([dom EXCEPT !.optimal = opt, !.slider = Num(opt)],
                             md, script_ok))

\* the dashboard is opened on a dataset; no script run has happened yet
InitSession ==
    /\ \E a \in SessionInputs : y_true = a[1] /\ y_proba = a[2]
    /\ ltv = Fin(DEFAULT_LTV)
    /\ cost = Fin(DEFAULT_OFFER_COST)
    /\ threshold = BEST_THRESHOLD
    /\ out = NoCall
    /\ prev = [threshold |-> 0, out |-> NoCall]
    /\ sweep = NoSweep
    /\ session = NoSession
    /\ page = NoPage
    /\ calls = NoCalls

\* The script runs on the session s.  When the rendered values are those of
\* the page already shown, the browser may keep the document it has, with
\* whatever the user did in it, or load it anew.
Run(s) ==
    \E r \in {script_run(s, y_true, y_proba)} :
       /\ session' = r.session
       /\ ltv' = r.run.values.ltv
       /\ cost' = r.run.values.cost
       /\ threshold' = r.run.values.threshold
       /\ out' = r.run.out
       /\ prev' = [threshold |-> threshold, out |-> out]
       /\ sweep' = r.run.sweep
       /\ \E keep \in BOOLEAN :
             page' = IF /\ keep
                        /\ page.status = "ok"
                        /\ r.run.page.status = "ok"
                        /\ r.run.page.modelData = page.modelData
                     THEN [r.run.page EXCEPT !.dom = page.dom]
                     ELSE r.run.page
       /\ UNCHANGED <<y_true, y_proba, calls>>

\* the first script run of a session
FirstLoad ==
    /\ ~session.has
    /\ Run(session)

\* the user enters another Customer LTV in the Streamlit sidebar (line 160)
EditLtv(e) ==
    /\ session.has
    /\ \E v \in {number_input(LTV_MIN, LTV_MAX, session.ltv_input, e)} :
          /\ v # session.ltv_input
          /\ Run([session EXCEPT !.ltv_input = v])

\* the user enters another Retention Offer Cost in the Streamlit sidebar
\* (line 161)
EditCost(e) ==
    /\ session.has
    /\ \E v \in {number_input(COST_MIN, COST_MAX, session.cost_input, e)} :
          /\ v # session.cost_input
          /\ Run([session EXCEPT !.cost_input = v])

\* the Streamlit button "Optimize Threshold" (lines 167-168): st.rerun()
\* abandons the run after line 165 and the script runs again
PressOptimize ==
    /\ session.has
    /\ Run(session)

\* the user enters a value in the page's own Customer LTV field (line 287);
\* its input event redraws the curve (lines 841-843)
ClientSetLtv(v) ==
    /\ page.status = "ok"
    /\ v # page.dom.customerLTV
    /\ page' = [page EXCEPT !.dom = updateProfitCurve([page.dom EXCEPT
                                                         !.customerLTV = v])]
    /\ UNCHANGED <<y_true, y_proba, ltv, cost, threshold, out, prev, sweep,
                   session, calls>>

\* the user enters a value in the page's own Retention Offer Cost field
\* (line 288); its input event redraws the curve (lines 847-849)
ClientSetCost(v) ==
    /\ page.status = "ok"
    /\ v # page.dom.offerCost
    /\ page' = [page EXCEPT !.dom = updateProfitCurve([page.dom EXCEPT
                                                         !.offerCost = v])]
    /\ UNCHANGED <<y_true, y_proba, ltv, cost, threshold, out, prev, sweep,
                   session, calls>>

\* what a user types into the threshold field (line 478): values inside and
\* outside 0.01..0.99, and text that is no number
SliderEntries == {Num(10), Num(500), Num(1500), NotANumber}

\* the user types e into the threshold field: its input and change events
\* call updateBulkMetrics (lines 829-830) and then the listeners of lines
\* 852-867, which call it again when 0.01 <= e <= 0.99
ClientEnterThreshold(e) ==
    /\ page.status = "ok"
    /\ e # page.dom.slider
    /\ page' = [page EXCEPT !.dom = updateBulkMetrics([page.dom EXCEPT !.slider = e],
                                                      page.modelData, page.script_ok)]
    /\ UNCHANGED <<y_true, y_proba, ltv, cost, threshold, out, prev, sweep,
                   session, calls>>

\* the page's button "Optimize Threshold" (line 289), or the change event of
\* one of the two fields (lines 840, 846): recalculateThreshold()
ClientOptimize ==
    /\ page.status = "ok"
    /\ page' = [page EXCEPT !.dom = recalculateThreshold(page.dom, page.modelData,
                                                        page.script_ok)]
    /\ UNCHANGED <<y_true, y_proba, ltv, cost, threshold, out, prev, sweep,
                   session, calls>>

\* what a user does through Streamlit: every action is a script run
NextSession ==
    \/ FirstLoad
    \/ \E e \in LtvEntries : EditLtv(e)
    \/ \E e \in CostEntries : EditCost(e)
    \/ PressOptimize

SpecSession == InitSession /\ [][NextSession]_vars

\* what a user does inside the rendered page, between reloads of it
NextClient ==
    \/ FirstLoad
    \/ PressOptimize
    \/ \E v \in LtvChoices : ClientSetLtv(v)
    \/ \E v \in CostChoices : ClientSetCost(v)
    \/ \E e \in SliderEntries : ClientEnterThreshold(e)
    \/ ClientOptimize

SpecClient == InitSession /\ [][NextClient]_vars

\* a user who keeps using the dashboard: every action that stays possible is
\* eventually taken
FairSession ==
    /\ SpecSession
    /\ WF_vars(FirstLoad)
    /\ \A e \in LtvEntries : WF_vars(EditLtv(e))
    /\ \A e \in CostEntries : WF_vars(EditCost(e))
    /\ WF_vars(PressOptimize)

\* the two functions called from a live session: the session holds values a
\* user chose, and a caller passes them with any threshold
InitCalls ==
    /\ \E a \in SessionInputs : y_true = a[1] /\ y_proba = a[2]
    /\ \E l \in LtvChoices, c \in CostChoices :
          /\ session = [has |-> TRUE, ltv |-> Fin(l), cost |-> Fin(c),
                        threshold |-> BEST_THRESHOLD,
                        ltv_input |-> l, cost_input |-> c]
          /\ ltv = Fin(l)
          /\ cost = Fin(c)
    /\ threshold = BEST_THRESHOLD
    /\ out = NoCall
    /\ prev = [threshold |-> 0, out |-> NoCall]
    /\ sweep = NoSweep
    /\ page = NoPage
    /\ calls = NoCalls

NextCalls ==
    \/ CallComputeProfit
    \/ CallComputeAllProfits

SpecCalls == InitCalls /\ [][NextCalls]_vars

\* ------------------------------------------------- concurrent callers
\* NumCallers callers evaluate compute_profit at the same time on the same
\* arrays, each with its own threshold and ltv.  A caller's position is the
\* line of compute_profit it executes next; y_pred and the four counts are
\* the locals of its own call.
NumCallers == 2
Callers == 1..NumCallers

CallerArgs ==
    {<<0, Fin(DEFAULT_LTV)>>, <<Scale \div 2, Fin(DEFAULT_LTV)>>,
     <<Scale \div 2, Fin(2000)>>}

IdleCaller ==
    [pc |-> "idle", t |-> 0, ltv |-> Fin(0), cost |-> Fin(0),
     y_pred |-> <<>>, counts |-> <<>>, result |-> NoCall]

\* slip: y_pred kept in one place that all calls share
own_y_pred_shared(cs, c) == cs[1].y_pred

\* the y_pred that line 69 of caller c's call reads: the local of that call
own_y_pred(cs, c) == cs[c].y_pred

InitConcurrent ==
    /\ \E a \in SessionInputs : y_true = a[1] /\ y_proba = a[2]
    /\ ltv = Fin(DEFAULT_LTV)
    /\ cost = Fin(DEFAULT_OFFER_COST)
    /\ threshold = 0
    /\ out = NoCall
    /\ prev = [threshold |-> 0, out |-> NoCall]
    /\ sweep = NoSweep
    /\ session = NoSession
    /\ page = NoPage
    /\ calls = [c \in Callers |-> IdleCaller]

\* caller c enters compute_profit(y_true, y_proba, t, l, cost)
Begin(c, t, l) ==
    /\ calls[c].pc = "idle"
    /\ calls' = [calls EXCEPT ![c] = [IdleCaller EXCEPT !.pc = "line68",
                                       !.t = t, !.ltv = l, !.cost = cost]]
    /\ UNCHANGED <<y_true, y_proba, ltv, cost, threshold, out, prev, sweep,
                   session, page>>

\* line 68: y_pred = (y_proba >= threshold).astype(int)
Line68(c) ==
    /\ calls[c].pc = "line68"
    /\ calls' = [calls EXCEPT ![c].y_pred = y_pred(y_proba, calls[c].t),
                              ![c].pc = "line69"]
    /\ UNCHANGED <<y_true, y_proba, ltv, cost, threshold, out, prev, sweep,
                   session, page>>

\* line 69: tn, fp, fn, tp = confusion_matrix(y_true, y_pred).ravel()
Line69(c) ==
    /\ calls[c].pc = "line69"
    /\ \E cm \in {confusion_matrix_ravel(y_true, own_y_pred(calls, c))} :
          calls' = IF cm.raised \/ Len(cm.ravel) # 4
                   THEN [calls EXCEPT ![c].result = Raised("ValueError"),
                                      ![c].pc = "done"]
                   ELSE [calls EXCEPT ![c].counts = cm.ravel,
                                      ![c].pc = "line70"]
    /\ UNCHANGED <<y_true, y_proba, ltv, cost, threshold, out, prev, sweep,
                   session, page>>

\* lines 70-71: the profit is computed from the call's own counts and returned
Line70(c) ==
    /\ calls[c].pc = "line70"
    /\ LET tn == calls[c].counts[1]
           fp == calls[c].counts[2]
           fn == calls[c].counts[3]
           tp == calls[c].counts[4]
       IN calls' = [calls EXCEPT
                       ![c].result = Returned(profit_formula(tp, fp, fn, tn,
                                                  calls[c].ltv, calls[c].cost),
                                              tp, fp, fn, tn),
                       ![c].pc = "done"]
    /\ UNCHANGED <<y_true, y_proba, ltv, cost, threshold, out, prev, sweep,
                   session, page>>

NextConcurrent ==
    \E c \in Callers :
        \/ \E a \in CallerArgs : Begin(c, a[1], a[2])
        \/ Line68(c)
        \/ Line69(c)
        \/ Line70(c)

SpecConcurrent == InitConcurrent /\ [][NextConcurrent]_vars

\* ------------------------------------------------------------- properties
\* The mathematical reading of "y_proba[i] >= threshold" for the latest call:
\* a finite probability at or above the threshold, or +Infinity (NaN is not
\* >= anything).
AtOrAbove(i) ==
    \/ y_proba[i].k = "fin" /\ y_proba[i].v >= threshold
    \/ y_proba[i] = PInf

\* number of customers with actual label a that are (pos) / are not (~pos)
\* at or above the threshold
CountOf(a, pos) ==
    Cardinality({i \in 1..Len(y_true) : y_true[i] = a /\ (AtOrAbove(i) <=> pos)})

Called == out.status # "none"
SameLength == Len(y_true) = Len(y_proba)
ProbsInUnitInterval ==
    \A i \in 1..Len(y_proba) :
        y_proba[i].k = "fin" /\ y_proba[i].v >= 0 /\ y_proba[i].v <= Scale
FiniteParams == IsFinite(ltv) /\ IsFinite(cost)

\* C1: customer i is predicted positive exactly when y_proba[i] >= threshold
\* (equality counts as positive), and the tp, fp, fn, tn that compute_profit
\* returns are the numbers of customers with (actual 1, predicted 1),
\* (actual 0, predicted 1), (actual 1, predicted 0), (actual 0, predicted 0).
C1_CountsMatchClassification ==
    Called =>
        /\ \A i \in 1..Len(y_proba) :
               y_pred(y_proba, threshold)[i] = 1 <=> AtOrAbove(i)
        /\ out.status = "ok" =>
               /\ out.tp = CountOf(1, TRUE)
               /\ out.fp = CountOf(0, TRUE)
               /\ out.fn = CountOf(1, FALSE)
               /\ out.tn = CountOf(0, FALSE)

\* a returned result in which a customer sits exactly on the threshold and is
\* counted as a true positive, next to a customer counted as negative
C1_Witness ==
    /\ out.status = "ok"
    /\ \E i \in 1..Len(y_proba) : y_proba[i] = Fin(threshold) /\ y_true[i] = 1
    /\ out.tp >= 1
    /\ out.fn + out.tn >= 1

\* C2: the profit returned equals tp*(ltv - cost) - fp*cost - fn*ltv for the
\* counts returned with it (real-valued ltv and cost); true negatives
\* contribute nothing.
C2_ProfitFormula ==
    (out.status = "ok" /\ FiniteParams) =>
        out.profit = Fin(out.tp * (ltv.v - cost.v) - out.fp * cost.v - out.fn * ltv.v)

C2_Witness ==
    /\ out.status = "ok"
    /\ FiniteParams
    /\ out.tp > 0 /\ out.fp > 0 /\ out.fn > 0
    /\ out.profit = Fin(900 - 100 - 1000)

\* C3: for equal-length arrays with labels in {0,1} the four counts returned
\* sum to N, the length of the arrays.
C3_CountsSumToN ==
    (out.status = "ok" /\ SameLength) =>
        out.tp + out.fp + out.fn + out.tn = Len(y_true)

C3_Witness ==
    /\ out.status = "ok"
    /\ Len(y_true) >= 2
    /\ out.tp > 0
    /\ out.tn > 0
    /\ out.tp + out.tn = Len(y_true)

\* C4: for the same arrays and thresholds t1 < t2, the tp returned at t1 is
\* >= the tp returned at t2, and the fp at t1 is >= the fp at t2.  (prev is
\* the call before the latest one; every ordered pair of thresholds occurs.)
C4_CountsNonIncreasing ==
    (prev.out.status = "ok" /\ out.status = "ok") =>
        /\ prev.threshold < threshold =>
               out.tp <= prev.out.tp /\ out.fp <= prev.out.fp
        /\ threshold < prev.threshold =>
               prev.out.tp <= out.tp /\ prev.out.fp <= out.fp

\* two calls where raising the threshold strictly lowers both counts
C4_Witness ==
    /\ prev.out.status = "ok" /\ out.status = "ok"
    /\ prev.threshold < threshold
    /\ out.tp < prev.out.tp
    /\ out.fp < prev.out.fp

\* C5: for threshold = 0, and for any threshold <= min(y_proba), every
\* customer is classified positive and compute_profit returns fn = 0 and
\* tn = 0 (arrays of N >= 1 customers, probabilities in [0,1]).
C5_AllPositiveAtLowThreshold ==
    (/\ Called /\ SameLength /\ Len(y_true) >= 1 /\ ProbsInUnitInterval
     /\ FiniteParams
     /\ \/ threshold = 0
        \/ \A i \in 1..Len(y_proba) : threshold <= y_proba[i].v)
    => (out.status = "ok" /\ out.fn = 0 /\ out.tn = 0)

\* C6: for threshold = 1, and for any threshold > max(y_proba), every
\* customer is classified negative and compute_profit returns tp = 0 and
\* fp = 0, for every probability array with values in [0,1].
C6_AllNegativeAtHighThreshold ==
    (/\ Called /\ SameLength /\ Len(y_true) >= 1 /\ ProbsInUnitInterval
     /\ FiniteParams
     /\ \/ threshold = Scale
        \/ \A i \in 1..Len(y_proba) : threshold > y_proba[i].v)
    => (out.status = "ok" /\ out.tp = 0 /\ out.fp = 0)

\* C7: whenever one of the four label/prediction combinations does not occur
\* in the input, compute_profit returns normally with that count equal to 0.
C7_AbsentClassCountsZero ==
    (Called /\ SameLength /\ Len(y_true) >= 1 /\ FiniteParams) =>
        /\ CountOf(1, TRUE) = 0 => (out.status = "ok" /\ out.tp = 0)
        /\ CountOf(0, TRUE) = 0 => (out.status = "ok" /\ out.fp = 0)
        /\ CountOf(1, FALSE) = 0 => (out.status = "ok" /\ out.fn = 0)
        /\ CountOf(0, FALSE) = 0 => (out.status = "ok" /\ out.tn = 0)

\* C8: when both arrays are empty compute_profit yields
\* tp = fp = fn = tn = 0 and profit 0 instead of an error.
C8_EmptyArraysAllZero ==
    (Called /\ Len(y_true) = 0 /\ Len(y_proba) = 0 /\ FiniteParams) =>
        out = Returned(Fin(0), 0, 0, 0, 0)

\* C9: when y_true and y_proba have different lengths, compute_profit and
\* compute_all_profits fail with an InvalidInputError.
C9_LengthMismatchRejected ==
    (~SameLength /\ FiniteParams) =>
        /\ Called => out.status = "InvalidInputError"
        /\ sweep.status # "none" => sweep.status = "InvalidInputError"

\* C10: when a probability, ltv or cost is NaN or infinite, compute_profit
\* fails with an InvalidInputError and returns no counts and no profit.
\* (Stated for arrays in which both labels occur, where the confusion matrix
\* is always 2 x 2.)
C10_NonFiniteRejected ==
    (/\ Called /\ SameLength /\ Range(y_true) = Labels
     /\ \/ \E i \in 1..Len(y_proba) : ~IsFinite(y_proba[i])
        \/ ~FiniteParams)
    => out.status = "InvalidInputError"

\* C11: with y_true = [1,0,1,0], y_proba = [0.9,0.8,0.3,0.1], threshold 0.5,
\* ltv 1000 and cost 100, compute_profit returns tp = 1, fp = 1, fn = 1,
\* tn = 1 and profit -200.
C11_ScenarioHalf ==
    (/\ Called /\ y_true = ScenarioTrue /\ y_proba = ScenarioProba
     /\ ltv = Fin(1000) /\ cost = Fin(100) /\ threshold = Scale \div 2)
    => out = Returned(Fin(0 - 200), 1, 1, 1, 1)

C11_Witness ==
    /\ out.status = "ok"
    /\ y_true = ScenarioTrue /\ y_proba = ScenarioProba
    /\ threshold = Scale \div 2
    /\ y_pred(y_proba, threshold) = <<1, 1, 0, 0>>

\* C12: same arrays, ltv and cost at threshold 0.05: compute_profit returns
\* tp = 2, fp = 2, fn = 0, tn = 0 and profit 1600.
C12_ScenarioLow ==
    (/\ Called /\ y_true = ScenarioTrue /\ y_proba = ScenarioProba
     /\ ltv = Fin(1000) /\ cost = Fin(100) /\ threshold = (5 * Scale) \div 100)
    => out = Returned(Fin(1600), 2, 2, 0, 0)

C12_Witness ==
    /\ out.status = "ok"
    /\ y_true = ScenarioTrue /\ y_proba = ScenarioProba
    /\ threshold = (5 * Scale) \div 100
    /\ y_pred(y_proba, threshold) = <<1, 1, 1, 1>>

\* C13 as stated: the sweep returns a non-empty list of thresholds and as many
\* profits, the k-th profit being compute_profit's at the k-th threshold, and
\* the sampled thresholds cover the range [0.01, 0.99].  (Stated for arrays
\* of equal length in which both labels occur, where no call raises.)
C13_SweepCoversFullRange ==
    (sweep.status # "none" /\ SameLength /\ Range(y_true) = Labels) =>
        /\ sweep.status = "ok"
        /\ Len(sweep.thresholds) > 0
        /\ Len(sweep.profits) = Len(sweep.thresholds)
        /\ \A k \in 1..Len(sweep.thresholds) :
               sweep.profits[k] =
                   compute_profit(y_true, y_proba, sweep.thresholds[k], ltv, cost).profit
        /\ sweep.thresholds[1] <= Scale \div 100
        /\ sweep.thresholds[Len(sweep.thresholds)] >= (99 * Scale) \div 100

\* C13, amended: whenever the sweep returns, it returns NumSweep thresholds
\* and NumSweep profits in sampling order, the k-th profit being the profit
\* compute_profit returns at the k-th threshold; the thresholds are evenly
\* spaced from 0.05 to 0.95.  The sweep raises ValueError exactly when one of
\* these compute_profit calls raises.
C13_SweepOverSampledRange ==
    sweep.status # "none" =>
        /\ sweep.status \in {"ok", "ValueError"}
        /\ sweep.status = "ok" =>
               /\ Len(sweep.thresholds) = NumSweep
               /\ Len(sweep.profits) = NumSweep
               /\ sweep.thresholds[1] = (5 * Scale) \div 100
               /\ sweep.thresholds[NumSweep] = (95 * Scale) \div 100
               /\ \A k \in 1..(NumSweep - 2) :
                      /\ sweep.thresholds[k] < sweep.thresholds[k + 1]
                      /\ sweep.thresholds[k + 1] - sweep.thresholds[k]
                            = sweep.thresholds[k + 2] - sweep.thresholds[k + 1]
               /\ \A k \in 1..NumSweep :
                      LET r == compute_profit(y_true, y_proba,
                                              sweep.thresholds[k], ltv, cost)
                      IN r.status = "ok" /\ sweep.profits[k] = r.profit
        /\ sweep.status = "ValueError" =>
               \E k \in 0..(NumSweep - 1) :
                   compute_profit(y_true, y_proba,
                       (5 * Scale) \div 100
                         + (k * ((90 * Scale) \div 100)) \div (NumSweep - 1),
                       ltv, cost).status = "ValueError"

\* a returned sweep whose profit actually changes along the thresholds
C13_Witness ==
    /\ sweep.status = "ok"
    /\ Len(sweep.profits) = NumSweep
    /\ IsFinite(sweep.profits[1])
    /\ sweep.profits[1] # sweep.profits[NumSweep]

\* C15: a call of compute_profit or of compute_all_profits leaves y_true,
\* y_proba and every session value as they were, and a sweep repeated over the
\* same inputs yields the result of the sweep before it.
C15_CallsLeaveInputsAlone ==
    [][/\ y_true' = y_true
       /\ y_proba' = y_proba
       /\ session' = session
       /\ ltv' = ltv
       /\ cost' = cost
       /\ (sweep.status # "none" /\ sweep'.status # "none" => sweep' = sweep)]_vars

\* both functions have been called on two customers, from a session whose
\* values are not the defaults
C15_Witness ==
    /\ session.has
    /\ session.ltv # Fin(DEFAULT_LTV)
    /\ Len(y_true) >= 2
    /\ out.status = "ok"
    /\ sweep.status = "ok"

\* C16: compute_profit keeps no state between or across calls: when several
\* callers evaluate it at the same time, each gets exactly the result its call
\* gives when it runs alone.
C16_ConcurrentCallsIndependent ==
    \A c \in DOMAIN calls :
        calls[c].pc = "done" =>
            calls[c].result = compute_profit(y_true, y_proba, calls[c].t,
                                             calls[c].ltv, calls[c].cost)

\* one caller has returned while another, with a different classification,
\* is in the middle of its call
C16_Witness ==
    /\ DOMAIN calls # {}
    /\ calls[1].pc = "done"
    /\ calls[1].result.status = "ok"
    /\ calls[2].pc = "line70"
    /\ calls[2].y_pred # calls[1].y_pred

\* C17: in the report and in the precision/recall lists of a run, a rate whose
\* denominator is 0 is reported as 0, and computing the rates never raises:
\* the only error a run ends with is the ValueError of compute_profit.
C17_ZeroDenominatorRatesAreZero ==
    /\ page.status = "error" => page.error = "ValueError" /\ out.status # "none"
    /\ page.status = "ok" =>
          /\ out.tp + out.fp = 0 => page.report.precision = 0
          /\ out.tp + out.fn = 0 => page.report.recall = 0
          /\ 2 * out.tp + out.fp + out.fn = 0 => page.report.f1 = 0
          /\ \A k \in 1..NumRates :
                LET r == compute_profit(y_true, y_proba, rate_thresholds[k],
                                        ltv, cost)
                IN /\ r.tp + r.fp = 0 => page.precision_list[k] = ZeroRate
                   /\ r.tp + r.fn = 0 => page.recall_list[k] = ZeroRate

\* a report whose precision has denominator 0: a churner and a stayer, nobody
\* at or above the threshold
C17_Witness ==
    /\ page.status = "ok"
    /\ Range(y_true) = Labels
    /\ out.tp + out.fp = 0
    /\ page.report.precision = 0
    /\ \E k \in 1..NumRates : page.precision_list[k] = ZeroRate

\* C18: the profit and the counts a run shows, in the page and in the report,
\* are those of compute_profit on the session's current threshold, ltv and
\* cost, whatever was computed in earlier runs.
C18_ProfitFromCurrentSessionValues ==
    page.status = "ok" =>
        LET r == compute_profit(y_true, y_proba, session.threshold,
                                session.ltv, session.cost)
        IN /\ r.status = "ok"
           /\ out = r
           /\ page.modelData.projectedProfit.value = r.profit.v
           /\ page.modelData.tp = r.tp /\ page.modelData.fp = r.fp
           /\ page.modelData.fn = r.fn /\ page.modelData.tn = r.tn
           /\ page.modelData.customerLTV = session.ltv.v
           /\ page.modelData.offerCost = session.cost.v
           /\ page.report.profit.value = r.profit.v
           /\ page.report.tp = r.tp /\ page.report.fp = r.fp
           /\ page.report.fn = r.fn /\ page.report.tn = r.tn

\* the user changed the ltv and the run before this one showed another profit
C18_Witness ==
    /\ page.status = "ok"
    /\ session.ltv # Fin(DEFAULT_LTV)
    /\ prev.out.status = "ok"
    /\ prev.out.profit # out.profit
    /\ page.modelData.projectedProfit.value = out.profit.v

\* C19 as stated: each of the three session values, the chosen threshold
\* included, is changed by some user action.
C19_AllThreeUserControlled ==
    /\ <>(session.has /\ session.ltv # Fin(DEFAULT_LTV))
    /\ <>(session.has /\ session.cost # Fin(DEFAULT_OFFER_COST))
    /\ <>(session.has /\ session.threshold # BEST_THRESHOLD)

\* C19: the session's ltv and cost are changed by the user through the
\* sidebar; the session's threshold is BEST_THRESHOLD from the first run on,
\* and so is the threshold every run evaluates.
C19_LtvAndCostUserControlled ==
    /\ <>(session.has /\ session.ltv # Fin(DEFAULT_LTV))
    /\ <>(session.has /\ session.cost # Fin(DEFAULT_OFFER_COST))
    /\ [](session.has =>
            session.threshold = BEST_THRESHOLD /\ threshold = BEST_THRESHOLD)

\* a session in which the user changed both the ltv and the cost
C19_Witness ==
    /\ session.has
    /\ session.ltv # Fin(DEFAULT_LTV)
    /\ session.cost # Fin(DEFAULT_OFFER_COST)
    /\ session.threshold = BEST_THRESHOLD
    /\ ltv = session.ltv
    /\ cost = session.cost

\* C20: the optimal threshold a rendered page shows is the one loaded from the
\* artifact, never one derived at runtime.
C20_OptimalThresholdShownAsLoaded ==
    page.status = "ok" => page.dom.optimal = Fmt3Threshold(BEST_THRESHOLD)

\* C21: for the same arrays, threshold, ltv and cost the injected
\* window.updateBulkMetrics produces the tp, fp, fn, tn and the profit that
\* compute_profit produces.
C21_ClientAgreesWithServer ==
    (Called /\ SameLength /\ Len(y_true) >= 1 /\ FiniteParams) =>
        out = client_metrics(y_true, y_proba, Fin(threshold), ltv, cost)

\* C22: whatever the profit, the injected script parses and replaces
\* updateBulkMetrics, so the counts a loaded page shows are those computed
\* from yTrue and yProba for the threshold in the threshold field.
C22_InjectedScriptReplacesApproximation ==
    page.status = "ok" =>
        /\ page.script_ok
        /\ LET m == updateBulkMetrics_injected(page.dom, page.modelData).shown
           IN /\ ~page.dom.shown.nan
              /\ page.dom.shown.tp = m.tp /\ page.dom.shown.fp = m.fp
              /\ page.dom.shown.fn = m.fn /\ page.dom.shown.tn = m.tn

\* C23: when the injected script parses, its DOMContentLoaded handler runs
\* to completion: no assignment fails for want of its element.
C23_InitializerRunsToCompletion ==
    (page.status = "ok" /\ page.script_ok) =>
        /\ page.dom.initializer.status = "done"
        /\ page.dom.initializer.steps = Len(InitializerTargets)

\* C24: the profit plotted at every threshold of the displayed curve is the
\* profit compute_profit gives on the data at that threshold with the ltv and
\* cost of the curve, with the same false positives, and the false positives
\* under the curve do not increase with the threshold.
C24_CurveFromData ==
    (page.status = "ok" /\ page.dom.curve.drawn) =>
        /\ \A k \in 1..NumCurve :
              LET p == curve_point(k, page.dom.curve.ltv, page.dom.curve.cost)
                  r == compute_profit(y_true, y_proba, (k * Scale) \div 100,
                                      Fin(page.dom.curve.ltv),
                                      Fin(page.dom.curve.cost))
              IN r.status = "ok" /\ r.profit = Fin(p.profit) /\ r.fp = p.fp
        /\ \A k \in 1..(NumCurve - 1) :
              curve_point(k + 1, page.dom.curve.ltv, page.dom.curve.cost).fp
                  <= curve_point(k, page.dom.curve.ltv, page.dom.curve.cost).fp

\* C25: the threshold and the counts a page shows were computed from a value
\* between 0.01 and 0.99.
C25_ShownThresholdInRange ==
    page.status = "ok" =>
        /\ ~page.dom.current.nan
        /\ page.dom.current.v >= 10
        /\ page.dom.current.v <= 990
        /\ ~page.dom.shown.nan

\* C26: on a page that shows a threshold, the warning is visible exactly when
\* that threshold differs from the displayed optimal threshold by more than
\* 0.02, and the profit-breakdown chart holds tp*(ltv-cost), -fp*cost,
\* -fn*ltv, 0 for the counts shown.
C26_WarningAndBreakdownFollowMetrics ==
    (page.status = "ok" /\ ~page.dom.current.nan) =>
        LET d == page.dom.current.v - page.dom.optimal
            m == page.dom.shown
        IN /\ page.dom.warning <=> (d > 20 \/ d < 0 - 20)
           /\ page.dom.breakdown =
                  [nan |-> FALSE,
                   data |-> <<m.tp * (m.ltv - m.cost), 0 - m.fp * m.cost,
                              0 - m.fn * m.ltv, 0>>]

\* C27: the At-Risk Customers count of a run, in the page and in the report,
\* is tp + fp of the same run, and each row of the report's confusion-matrix
\* sheet holds, under its label, the number of customers with the row's
\* (predicted, actual) pair: TN (Retained, Retained), FN (Retained, Churned),
\* FP (Churned, Retained), TP (Churned, Churned).
C27_AtRiskAndMatrixRows ==
    page.status = "ok" =>
        /\ page.modelData.atRiskCount = out.tp + out.fp
        /\ page.report.at_risk = page.report.tp + page.report.fp
        /\ {<<row[1], row[2], row[4]>> : row \in {page.report.cm[k] : k \in 1..4}}
              = {<<"Retained", "Retained", "TN">>, <<"Retained", "Churned", "FN">>,
                 <<"Churned", "Retained", "FP">>, <<"Churned", "Churned", "TP">>}
        /\ \A k \in 1..4 :
              LET row == page.report.cm[k]
              IN row[3] = CountOf(IF row[2] = "Churned" THEN 1 ELSE 0,
                                  row[1] = "Churned")

\* a run that flags some customers and not others
C27_Witness ==
    /\ page.status = "ok"
    /\ page.report.at_risk >= 1
    /\ page.report.at_risk < Len(y_proba)
    /\ page.report.cm[4][3] + page.report.cm[3][3] = page.report.at_risk

\* what C28 asks of one step: the first run starts from the defaults, and a
\* later run leaves alone an ltv or a cost whose input the user did not change
SessionStep ==
    /\ (~session.has /\ session'.has) =>
          (session'.ltv = Fin(DEFAULT_LTV) /\ session'.cost = Fin(DEFAULT_OFFER_COST))
    /\ (session.has /\ session'.ltv_input = session.ltv_input) =>
          (session'.ltv = session.ltv)
    /\ (session.has /\ session'.cost_input = session.cost_input) =>
          (session'.cost = session.cost)

\* what C28 asks of a state: once the script has run, the session's ltv and
\* cost are the numbers the sidebar inputs hold, within the inputs' limits,
\* and the session's threshold is BEST_THRESHOLD
SessionState ==
    session.has =>
        /\ session.ltv = Fin(session.ltv_input)
        /\ session.cost = Fin(session.cost_input)
        /\ LTV_MIN <= session.ltv.v /\ session.ltv.v <= LTV_MAX
        /\ COST_MIN <= session.cost.v /\ session.cost.v <= COST_MAX
        /\ session.threshold = BEST_THRESHOLD

\* C28: once the script has run, the session's ltv and cost are the numbers
\* the two sidebar inputs hold, within the inputs' limits, and the session's
\* threshold is BEST_THRESHOLD; the first run starts from the defaults, and a
\* later script run leaves alone an ltv or a cost whose input the user did
\* not change, whatever was chosen before.
C28_SessionFollowsSidebar ==
    []SessionState /\ [][SessionStep]_vars

\* the script has run again on an ltv and a cost the user chose, after the
\* user typed numbers beyond the limits
C28_Witness ==
    /\ session.has
    /\ session.ltv = Fin(2000)
    /\ session.cost = Fin(200)
    /\ prev.out.status # "none"
    /\ ENABLED PressOptimize
====
